---------------------------- MODULE Spec2Model ----------------------------
(***************************************************************************)
(* A model of collect_macho_report.py: the concurrent traversal of the     *)
(* Mach-O dependency graph (_worker, _processNode, _gatherNodes) and the   *)
(* single-threaded satisfiability pass (_checkNode, _updateMissing).       *)
(*                                                                         *)
(* A path or a raw reference string is a sequence of its "/"-separated     *)
(* components; a Python dict is a function whose domain is the set of keys *)
(* the dict holds, so that `"k" in node` is  "k" \in DOMAIN node.          *)
(***************************************************************************)
EXTENDS Naturals, Sequences, FiniteSets, TLC

(***************************************************************************)
(* Bounds of the model.                                                    *)
(***************************************************************************)
\* Worker tasks submitted to the pool (the program submits _max_workers).
NumWorkers == 2
\* Files that may vanish from disk while the traversal runs.
MaxRemovals == 1

Workers == 1..NumWorkers

(***************************************************************************)
(* Strings: raw references and paths.                                      *)
(***************************************************************************)
\* A raw string of a load command: absolute ("/a/b") or not ("@rpath/b").
Ref(isAbs, comps) == [abs |-> isAbs, comps |-> comps]
AbsRef(comps) == Ref(TRUE, comps)
TokRef(comps) == Ref(FALSE, comps)

\* The process's working directory, which os.path.abspath prepends.
Cwd == <<"cwd">>

\* The value v, worked out once and handed to F.
With(v, F(_)) == CHOOSE r \in { F(x) : x \in {v} } : TRUE

Front(s) == IF s = <<>> THEN <<>> ELSE SubSeq(s, 1, Len(s) - 1)

Contains(comps, tok) == \E i \in 1..Len(comps) : comps[i] = tok

RECURSIVE ReplaceComps(_, _, _)
ReplaceComps(comps, tok, repl) ==
    IF comps = <<>> THEN <<>>
    ELSE (IF Head(comps) = tok THEN repl ELSE <<Head(comps)>>)
             \o ReplaceComps(Tail(comps), tok, repl)

\* str.replace(tok, path) where path is an absolute path: a string that
\* starts with the token becomes absolute.
StrReplace(raw, tok, path) ==
    [abs   |-> raw.abs \/ (raw.comps # <<>> /\ raw.comps[1] = tok),
     comps |-> ReplaceComps(raw.comps, tok, path)]

RECURSIVE Normalize(_, _)
Normalize(comps, acc) ==
    IF comps = <<>> THEN acc
    ELSE IF Head(comps) = ".." THEN Normalize(Tail(comps), Front(acc))
    ELSE IF Head(comps) = "." THEN Normalize(Tail(comps), acc)
    ELSE Normalize(Tail(comps), Append(acc, Head(comps)))

\* os.path.abspath: join with the working directory, collapse "." and "..".
Abspath(raw) ==
    Normalize(IF raw.abs THEN raw.comps ELSE Cwd \o raw.comps, <<>>)

\* os.path.dirname of an absolute path.
Dirname(path) == Front(path)

\* A file name is one token unless it holds characters that the program's
\* own strings are built with; such a name is the tokens it is spelled with.
Spelling == "lib@x86_64@[]" :> <<"lib", "@", "x86_64", "@", "[", "]">>
Spell(name) == IF name \in DOMAIN Spelling THEN Spelling[name] ELSE <<name>>

\* The string of a path, as tokens: "/a/b" is <<"/", "a", "/", "b">>.
RECURSIVE PathStr(_)
PathStr(path) ==
    IF path = <<>> THEN <<>>
    ELSE <<"/">> \o Spell(Head(path)) \o PathStr(Tail(path))

\* The string of a raw reference, as tokens.
RawStr(raw) ==
    IF raw.abs THEN PathStr(raw.comps)
    ELSE IF raw.comps = <<>> THEN <<>>
    ELSE <<raw.comps[1]>> \o PathStr(Tail(raw.comps))

\* json.dumps of a list of path strings.
RECURSIVE JsonItems(_)
JsonItems(stack) ==
    IF stack = <<>> THEN <<>>
    ELSE <<"\"">> \o PathStr(Head(stack)) \o <<"\"">>
           \o (IF Len(stack) > 1 THEN <<", ">> ELSE <<>>)
           \o JsonItems(Tail(stack))

JsonDumps(stack) == <<"[">> \o JsonItems(stack) \o <<"]">>

\* dict assignment node[k] = v, and dict.update.
Put(node, k, v) == (k :> v) @@ node
Update(node, other) == other @@ node
Has(node, k) == k \in DOMAIN node
\* dict.pop(k) of a key the dict holds or not.
Pop(node, k) == [f \in (DOMAIN node) \ {k} |-> node[f]]


(***************************************************************************)
(* The files on disk.  A Mach-O file has one header per architecture       *)
(* slice, each with its file type, its LC_RPATH strings and its            *)
(* dynamic-library references, in load-command order.                      *)
(***************************************************************************)
Hdr(arch, filetype, rpaths, deps) ==
    [arch |-> arch, filetype |-> filetype, rpaths |-> rpaths, deps |-> deps]
MachOFile(headers) == [macho |-> TRUE, headers |-> headers]
OtherFile == [macho |-> FALSE, headers |-> <<>>]

\* An executable with a cascading rpath stack, a system library, a library
\* present in two rpath directories and a reference nothing resolves.
AppFiles ==
    (<<"app", "bin", "a">> :> MachOFile(<<
        Hdr("x86_64", "EXECUTE",
            << TokRef(<<"@loader_path", "..", "lib">>),
               AbsRef(<<"app", "lib">>),
               TokRef(<<"@executable_path", "..", "fw">>) >>,
            << TokRef(<<"@rpath", "libb">>),
               AbsRef(<<"usr", "lib", "libsys">>),
               TokRef(<<"@rpath", "libgone">>) >>) >>))
    @@ (<<"app", "lib", "libb">> :> MachOFile(<<
        Hdr("x86_64", "DYLIB",
            << TokRef(<<"@loader_path", "..", "fw">>),
               AbsRef(<<"opt", "x">>) >>,
            << TokRef(<<"@rpath", "libd">>) >>) >>))
    @@ (<<"app", "lib", "libd">> :> MachOFile(<<
        Hdr("x86_64", "DYLIB", <<>>,
            << AbsRef(<<"usr", "lib", "libsys">>) >>) >>))
    @@ (<<"app", "fw", "libd">> :> MachOFile(<<
        Hdr("x86_64", "DYLIB", <<>>, <<>>) >>))
    @@ (<<"usr", "lib", "libsys">> :> MachOFile(<<
        Hdr("x86_64", "DYLIB", <<>>, <<>>) >>))

\* Libraries that depend on each other cyclically; b also misses /d/m.
CycleFiles ==
    (<<"d", "r">> :> MachOFile(<<
        Hdr("x86_64", "DYLIB", <<>>, << AbsRef(<<"d", "b">>) >>) >>))
    @@ (<<"d", "r2">> :> MachOFile(<<
        Hdr("x86_64", "DYLIB", <<>>, << AbsRef(<<"d", "a">>) >>) >>))
    @@ (<<"d", "b">> :> MachOFile(<<
        Hdr("x86_64", "DYLIB", <<>>,
            << AbsRef(<<"d", "a">>), AbsRef(<<"d", "m">>) >>) >>))
    @@ (<<"d", "a">> :> MachOFile(<<
        Hdr("x86_64", "DYLIB", <<>>, << AbsRef(<<"d", "b">>) >>) >>))

\* The same cycle, b naming the file it misses before the library that
\* leads back to it.
MissingFirstFiles ==
    (<<"d", "r">> :> MachOFile(<<
        Hdr("x86_64", "DYLIB", <<>>, << AbsRef(<<"d", "b">>) >>) >>))
    @@ (<<"d", "b">> :> MachOFile(<<
        Hdr("x86_64", "DYLIB", <<>>,
            << AbsRef(<<"d", "m">>), AbsRef(<<"d", "a">>) >>) >>))
    @@ (<<"d", "a">> :> MachOFile(<<
        Hdr("x86_64", "DYLIB", <<>>, << AbsRef(<<"d", "b">>) >>) >>))

\* A fat executable, a fat library, a helper executable loaded as a
\* dependency, a file that is no Mach-O, and a system library given as root.
FatFiles ==
    (<<"f", "tool">> :> MachOFile(<<
        Hdr("x86_64", "EXECUTE", <<>>,
            << TokRef(<<"@executable_path", "libx">>),
               AbsRef(<<"f", "data">>) >>),
        Hdr("arm64", "EXECUTE", <<>>,
            << TokRef(<<"@loader_path", "libx">>),
               TokRef(<<"@loader_path", "sub", "helper">>) >>) >>))
    @@ (<<"f", "libx">> :> MachOFile(<<
        Hdr("x86_64", "DYLIB", <<>>, <<>>),
        Hdr("arm64", "DYLIB", <<>>, << AbsRef(<<"f", "gone">>) >>) >>))
    @@ (<<"f", "sub", "helper">> :> MachOFile(<<
        Hdr("arm64", "EXECUTE", <<>>,
            << TokRef(<<"@executable_path", "libh">>) >>) >>))
    @@ (<<"f", "sub", "libh">> :> MachOFile(<<
        Hdr("arm64", "DYLIB", <<>>,
            << AbsRef(<<"usr", "lib", "libz">>) >>) >>))
    @@ (<<"f", "data">> :> OtherFile)
    @@ (<<"usr", "lib", "libz">> :> MachOFile(<<
        Hdr("arm64", "DYLIB", <<>>, <<>>) >>))

\* An exclusion is a regular expression: a sequence of literal tokens and
\* ".*" wildcards, matched against the whole " : "-joined name.
AnyPrefix(tokens) == <<".*", " : ">> \o tokens

Scenarios == <<
    [files      |-> AppFiles,
     roots      |-> << <<"app", "bin", "a">> >>,
     volatile   |-> {},
     exclusions |-> { <<>>,
                      << AnyPrefix(<<"@rpath", "/", "libgone">>) >>,
                      << AnyPrefix(PathStr(<<"app", "lib", "libb">>)),
                         PathStr(<<"app", "bin", "a">>) >> }],
    [files      |-> CycleFiles,
     roots      |-> << <<"d", "r">>, <<"d", "r2">> >>,
     volatile   |-> {},
     exclusions |-> { <<>>,
                      << AnyPrefix(PathStr(<<"d", "b">>)) >> }],
    [files      |-> FatFiles,
     roots      |-> << <<"f", "tool">>, <<"usr", "lib", "libz">> >>,
     volatile   |-> { <<"f", "libx">> },
     exclusions |-> { <<>>,
                      << AnyPrefix(PathStr(<<"f", "data">>)) >> }],
    [files      |-> MissingFirstFiles,
     roots      |-> << <<"d", "r">> >>,
     volatile   |-> {},
     exclusions |-> { <<>> }]
>>

\* Every directory on the way to a file, and the working directory.
Prefixes(path) == { SubSeq(path, 1, n) : n \in 0..(Len(path) - 1) }
DirsOf(files) == UNION { Prefixes(p) : p \in DOMAIN files } \cup {Cwd}

\* The disk: the scenario's files less those removed since.
Disk(files, removed) ==
    [files |-> files, present |-> (DOMAIN files) \ removed, dirs |-> DirsOf(files)]

\* os.path.exists of a string: every component is walked from the root (or
\* the working directory); cur is a directory that exists.
RECURSIVE Walk(_, _, _)
Walk(cur, comps, disk) ==
    IF comps = <<>> THEN TRUE
    ELSE IF Head(comps) = ".." THEN Walk(Front(cur), Tail(comps), disk)
    ELSE IF Head(comps) = "." THEN Walk(cur, Tail(comps), disk)
    ELSE LET nxt == Append(cur, Head(comps)) IN
         IF nxt \in disk.dirs THEN Walk(nxt, Tail(comps), disk)
         ELSE nxt \in disk.present /\ Tail(comps) = <<>>

OsPathExists(raw, disk) == Walk(IF raw.abs THEN <<>> ELSE Cwd, raw.comps, disk)

\* Names that start with "lib", and with "Library".
LibNames == {"lib", "libexec"}
LibraryNames == {"Library", "LibraryExtras"}

IsSystemLib(path) ==
    IF Len(path) >= 2 /\ path[1] = "usr" /\ path[2] \in LibNames THEN TRUE
    ELSE IF Len(path) >= 2 /\ path[1] = "System" /\ path[2] \in LibraryNames THEN TRUE
    ELSE FALSE

\* Lines 176-177.
SubstLoaderPath(parentNode, dependencyPath) ==
    IF Contains(dependencyPath.comps, "@loader_path")
    THEN StrReplace(dependencyPath, "@loader_path", parentNode["@loader_path"])
    ELSE dependencyPath

\* Lines 179-180.
SubstExecutablePath(parentNode, path) ==
    IF Contains(path.comps, "@executable_path")
       /\ Has(parentNode, "@executable_path")
    THEN StrReplace(path, "@executable_path", parentNode["@executable_path"])
    ELSE path

\* Line 182.
ExistsAndAbspath(path, disk) ==
    [exists |-> OsPathExists(path, disk), path |-> Abspath(path)]

ResolvePath(parentNode, dependencyPath, disk) ==
    With(SubstLoaderPath(parentNode, dependencyPath),
         LAMBDA p1 : With(SubstExecutablePath(parentNode, p1),
                          LAMBDA p2 : ExistsAndAbspath(p2, disk)))

\* Mutant of MakeCacheKey: the key is the path alone.
MakeCacheKeyOfPath(node) == PathStr(node["path"])

\* Lines 185-193.
MakeCacheKey(node) ==
    PathStr(node["path"])
    \o (IF Has(node, "restrictarch")
        THEN <<"@", node["restrictarch"]>> ELSE <<>>)
    \o (IF Has(node, "@executable_path")
        THEN <<"@">> \o PathStr(node["@executable_path"]) ELSE <<>>)
    \o (IF Has(node, "parentRpathStack")
        THEN <<"@">> \o JsonDumps(node["parentRpathStack"]) ELSE <<>>)

(***************************************************************************)
(* _processNode.                                                           *)
(***************************************************************************)
InSeq(x, s) == \E i \in 1..Len(s) : s[i] = x

\* Mutant of PushRpath: the rpath joins the stack without the test of
\* line 246.
PushRpathAlways(rpathStack, resolvedPath) == Append(rpathStack, resolvedPath)

\* Lines 246-247: an rpath joins the stack unless it is already there.
PushRpath(rpathStack, resolvedPath) ==
    IF ~InSeq(resolvedPath, rpathStack)
    THEN Append(rpathStack, resolvedPath) ELSE rpathStack

\* Lines 244-247: the slice's rpaths, resolved, onto the inherited stack.
RECURSIVE RpathStack(_, _, _, _)
RpathStack(node, rpaths, rpathStack, disk) ==
    IF rpaths = <<>> THEN rpathStack
    ELSE With(ResolvePath(node, Head(rpaths), disk).path,
              LAMBDA resolvedPath :
                  With(PushRpath(rpathStack, resolvedPath),
                       LAMBDA pushed :
                           RpathStack(node, Tail(rpaths), pushed, disk)))

\* Mutant of FirstExisting: a later candidate that exists is preferred.
LastExisting(r, others) == IF others.exists THEN others ELSE r

\* Lines 258-260: a candidate that exists ends the search.
FirstExisting(r, others) == IF r.exists THEN r ELSE others

\* Lines 256-260: the first stack entry whose candidate exists.
RECURSIVE TryRpaths(_, _, _, _)
TryRpaths(node, fileName, rpathStack, disk) ==
    IF rpathStack = <<>> THEN [exists |-> FALSE, path |-> <<>>]
    ELSE With(ResolvePath(node,
                  StrReplace(fileName, "@rpath", Head(rpathStack)), disk),
              LAMBDA r : FirstExisting(r,
                  TryRpaths(node, fileName, Tail(rpathStack), disk)))

\* Lines 252-262.
ResolveDependency(node, fileName, rpathStack, disk) ==
    IF Contains(fileName.comps, "@rpath")
    THEN TryRpaths(node, fileName, rpathStack, disk)
    ELSE ResolvePath(node, fileName, disk)

\* Lines 265-273: the child node.
NewNode(node, newNodePath, rpathStack, archName) ==
    LET newNode == [path             |-> newNodePath,
                    parentRpathStack |-> rpathStack,
                    restrictarch     |-> archName,
                    system           |-> IsSystemLib(newNodePath)]
    IN  IF Has(node, "@executable_path")
        THEN Put(newNode, "@executable_path", node["@executable_path"])
        ELSE newNode

\* Mutant of ShouldEnqueue: every child is put on the queue.
ShouldEnqueueAll(ignoreSystem, newNode) == TRUE

\* Mutant of ShouldEnqueue: a system child is never put on the queue.
ShouldEnqueueNoSystem(ignoreSystem, newNode) == ~newNode["system"]

\* Line 277.
ShouldEnqueue(ignoreSystem, newNode) == ~ignoreSystem \/ ~newNode["system"]

\* Lines 250 and 264-278: the descriptor of one reference, and its child
\* node put on the queue.
Record(acc, fileName, exists, newNode, ignoreSystem) ==
    [descs |-> Append(acc.descs,
                      IF exists THEN Update([name |-> fileName], newNode)
                      ELSE [name |-> fileName]),
     puts  |-> acc.puts \o (IF exists /\ ShouldEnqueue(ignoreSystem, newNode)
                            THEN <<newNode>> ELSE <<>>)]

\* Lines 250-278: one reference, r being where it resolved.
Relocatable(node, archName, rpathStack, fileName, acc, ignoreSystem, r) ==
    Record(acc, fileName, r.exists,
           NewNode(node, r.path, rpathStack, archName), ignoreSystem)

\* Lines 249-278: the slice's references, in order; acc holds the
\* descriptors written so far and the nodes put on the queue.
RECURSIVE WalkRelocatables(_, _, _, _, _, _, _)
WalkRelocatables(node, archName, rpathStack, deps, acc, ignoreSystem, disk) ==
    IF deps = <<>> THEN acc
    ELSE With(ResolveDependency(node, Head(deps), rpathStack, disk),
              LAMBDA r :
                  With(Relocatable(node, archName, rpathStack, Head(deps),
                                   acc, ignoreSystem, r),
                       LAMBDA next :
                           WalkRelocatables(node, archName, rpathStack,
                                            Tail(deps), next, ignoreSystem,
                                            disk)))

\* node["arch"][archName] = slice: a dict keeps a key's first position.
SetArch(arch, slice) ==
    IF \E i \in 1..Len(arch) : arch[i].name = slice.name
    THEN [i \in 1..Len(arch) |->
             IF arch[i].name = slice.name THEN slice ELSE arch[i]]
    ELSE Append(arch, slice)

\* Mutant of SetExecutablePath: set whatever the file type.
SetExecutablePathAlways(node, header) ==
    Put(node, "@executable_path", node["@loader_path"])

\* Lines 224-225.
SetExecutablePath(node, header) ==
    IF header.filetype = "EXECUTE"
    THEN Put(node, "@executable_path", node["@loader_path"]) ELSE node

\* Lines 241-243.
InheritedStack(node) ==
    IF Has(node, "parentRpathStack") THEN node["parentRpathStack"] ELSE <<>>

\* Lines 219-222 and 250-278: the slice's record, with the descriptors w
\* holds; st holds the node, the nodes put on the queue and the effective
\* rpath stack of each slice kept.
StoreSlice(st, header, node, rpathStack, w) ==
    [st EXCEPT
       !.node = Put(node, "arch",
                    SetArch(node["arch"],
                            [name         |-> header.arch,
                             rpaths       |-> header.rpaths,
                             dependencies |-> w.descs])),
       !.puts = st.puts \o w.puts,
       !.eff  = Put(st.eff, header.arch, rpathStack)]

\* Lines 249-278.
SliceReferences(st, header, node, rpathStack, ignoreSystem, disk) ==
    With(WalkRelocatables(node, header.arch, rpathStack, header.deps,
                          [descs |-> <<>>, puts |-> <<>>], ignoreSystem, disk),
         LAMBDA w : StoreSlice(st, header, node, rpathStack, w))

\* Lines 241-278.
SliceRpaths(st, header, node, ignoreSystem, disk) ==
    With(RpathStack(node, header.rpaths, InheritedStack(node), disk),
         LAMBDA rpathStack :
             SliceReferences(st, header, node, rpathStack, ignoreSystem, disk))

\* Lines 214-278: one header.
ProcessHeader(st, header, ignoreSystem, disk) ==
    IF Has(st.node, "restrictarch") /\ header.arch # st.node["restrictarch"]
    THEN st
    ELSE With(SetExecutablePath(st.node, header),
              LAMBDA node : SliceRpaths(st, header, node, ignoreSystem, disk))

RECURSIVE ProcessHeaders(_, _, _, _)
ProcessHeaders(st, headers, ignoreSystem, disk) ==
    IF headers = <<>> THEN st
    ELSE With(ProcessHeader(st, Head(headers), ignoreSystem, disk),
              LAMBDA next :
                  ProcessHeaders(next, Tail(headers), ignoreSystem, disk))

\* MachO.MachO(path): the file at path, or what is no Mach-O (a directory).
FileAt(path, disk) ==
    IF path \in disk.present THEN disk.files[path] ELSE OtherFile

\* Lines 207-280, file being what the parser read.
Parsed(node, file, ignoreSystem, disk) ==
    IF ~file.macho
    THEN [node |-> Put(node, "parsed", FALSE), puts |-> <<>>, eff |-> <<>>,
          raised |-> FALSE]
    ELSE With([node |-> Put(Put(Put(node, "parsed", TRUE),
                                    "@loader_path", Dirname(node["path"])),
                                "arch", <<>>),
               puts |-> <<>>, eff |-> <<>>, raised |-> FALSE],
              LAMBDA st : ProcessHeaders(st, file.headers, ignoreSystem, disk))

\* Lines 201-280.  raised: line 207 reads macho, which nothing has bound
\* when the path does not exist (UnboundLocalError).
Existing(node, ignoreSystem, disk) ==
    IF ~node["exists"]
    THEN [node |-> node, puts |-> <<>>, eff |-> <<>>, raised |-> TRUE]
    ELSE Parsed(node, FileAt(node["path"], disk), ignoreSystem, disk)

\* Lines 196-282.
ProcessNode(node, ignoreSystem, disk) ==
    With(Put(node, "exists", OsPathExists(AbsRef(node["path"]), disk)),
         LAMBDA n : Existing(n, ignoreSystem, disk))

(***************************************************************************)
(* The state.                                                              *)
(***************************************************************************)
VARIABLES
    scn,          \* the files and roots of this run: an index of Scenarios
    ignoreSystem, \* the --ignoresystem flag
    exclusions,   \* the compiled exclusion list
    removed,      \* files removed from disk since the run started
    queue,        \* nodes: the items of the work queue, oldest first
    unfinished,   \* nodes.unfinished_tasks
    cache,        \* nodeCache: key -> node
    cacheOrder,   \* the keys of nodeCache in insertion order
    wpc,          \* each worker's place in _worker
    wnode,        \* each worker's node
    wkey,         \* each worker's nodeKey
    mainPc,       \* the caller's place in _collectDependencies
    resIdx,       \* the future whose result() _gatherNodes waits for
    putCount,     \* history: key -> times a node with that key was put
    procCount,    \* history: key -> calls of _processNode with that key
    effStack,     \* history: key -> arch -> effective rpath stack
    umIdx,        \* _updateMissing: the place in nodes.values()
    stack,        \* _updateMissing: the calls of _checkNode in progress
    report        \* what collect returns: the list _makeReport made

vars == <<scn, ignoreSystem, exclusions, removed, queue, unfinished, cache,
          cacheOrder, wpc, wnode, wkey, mainPc, resIdx, putCount, procCount,
          effStack, umIdx, stack, report>>

\* The run's inputs, the history variables, the satisfiability pass.
inputs == <<scn, ignoreSystem, exclusions>>
history == <<putCount, procCount, effStack>>
pass == <<umIdx, stack>>

NoNode == [none |-> TRUE]
NoKey == <<>>

TheDisk == Disk(Scenarios[scn].files, removed)

\* Line 348.
RootNode(path) == [path |-> path, root |-> TRUE, package |-> ""]

\* The orders in which a set of root files can be listed.
Orders(seq) ==
    { [i \in 1..Len(seq) |-> seq[f[i]]] :
        f \in { g \in [1..Len(seq) -> 1..Len(seq)] :
                  \A i, j \in 1..Len(seq) : i # j => g[i] # g[j] } }

Count(f, k) == IF k \in DOMAIN f THEN f[k] ELSE 0
Bump(f, k) == Put(f, k, Count(f, k) + 1)

RECURSIVE BumpAll(_, _)
BumpAll(f, nodes) ==
    IF nodes = <<>> THEN f
    ELSE BumpAll(Bump(f, MakeCacheKey(Head(nodes))), Tail(nodes))

\* Lines 338-352: the roots are on the queue and the workers submitted.
Init ==
    /\ scn \in 1..Len(Scenarios)
    /\ ignoreSystem \in BOOLEAN
    /\ exclusions \in Scenarios[scn].exclusions
    /\ removed = {}
    /\ \E order \in Orders(Scenarios[scn].roots) :
          queue = [i \in 1..Len(order) |-> RootNode(order[i])]
    /\ unfinished = Len(queue)
    /\ cache = <<>>
    /\ cacheOrder = <<>>
    /\ wpc = [w \in Workers |-> "get"]
    /\ wnode = [w \in Workers |-> NoNode]
    /\ wkey = [w \in Workers |-> NoKey]
    /\ mainPc = "join"
    /\ resIdx = 1
    /\ putCount = BumpAll(<<>>, queue)
    /\ procCount = <<>>
    /\ effStack = <<>>
    /\ umIdx = 1
    /\ stack = <<>>
    /\ report = <<>>

(***************************************************************************)
(* _worker.                                                                *)
(***************************************************************************)
\* Line 291: an item is taken.
Get(w) ==
    /\ wpc[w] = "get"
    /\ queue # <<>>
    /\ wnode' = [wnode EXCEPT ![w] = Head(queue)]
    /\ wkey' = [wkey EXCEPT ![w] = MakeCacheKey(Head(queue))]
    /\ queue' = Tail(queue)
    /\ wpc' = [wpc EXCEPT ![w] = "claim"]
    /\ UNCHANGED <<inputs, report, removed, unfinished, cache, cacheOrder, mainPc,
                   resIdx, history, pass>>

\* Mutant of Timeout: the worker returns whatever the queue holds.
TimeoutAnytime(w) ==
    /\ wpc[w] = "get"
    /\ wpc' = [wpc EXCEPT ![w] = "exited"]
    /\ UNCHANGED <<inputs, report, removed, queue, unfinished, cache, cacheOrder,
                   wnode, wkey, mainPc, resIdx, history, pass>>

\* Lines 291-296: the wait ends with the queue empty, the worker returns.
Timeout(w) ==
    /\ wpc[w] = "get"
    /\ queue = <<>>
    /\ wpc' = [wpc EXCEPT ![w] = "exited"]
    /\ UNCHANGED <<inputs, report, removed, queue, unfinished, cache, cacheOrder,
                   wnode, wkey, mainPc, resIdx, history, pass>>

\* Mutant of MayProcess: the cache is not consulted.
MayProcessAlways(nodeKey, theCache) == TRUE

\* Line 302: whether the worker is to process the node it holds.
MayProcess(nodeKey, theCache) == nodeKey \notin DOMAIN theCache

\* Lines 301-311, under the lock.
Claim(w) ==
    /\ wpc[w] = "claim"
    /\ IF MayProcess(wkey[w], cache)
       THEN /\ cache' = Put(cache, wkey[w], wnode[w])
            /\ cacheOrder' = IF wkey[w] \in DOMAIN cache THEN cacheOrder
                             ELSE Append(cacheOrder, wkey[w])
            /\ wpc' = [wpc EXCEPT ![w] = "process"]
       ELSE /\ wpc' = [wpc EXCEPT ![w] = "done"]
            /\ UNCHANGED <<cache, cacheOrder>>
    /\ UNCHANGED <<inputs, report, removed, queue, unfinished, wnode, wkey, mainPc,
                   resIdx, history, pass>>

\* Lines 314 and 278: what a call of _processNode that ended as r leaves.
\* The cache holds the very dict the worker works on, so what _processNode
\* writes to the node shows in the cache.
Processed(w, r) ==
    /\ wnode' = [wnode EXCEPT ![w] = r.node]
    /\ cache' = Put(cache, wkey[w], r.node)
    /\ queue' = queue \o r.puts
    /\ unfinished' = unfinished + Len(r.puts)
    /\ putCount' = BumpAll(putCount, r.puts)
    /\ procCount' = Bump(procCount, wkey[w])
    /\ effStack' = Put(effStack, wkey[w], r.eff)
    /\ wpc' = [wpc EXCEPT ![w] = IF r.raised THEN "failed" ELSE "store"]

\* Line 314.
Process(w) ==
    /\ wpc[w] = "process"
    /\ \E disk \in {TheDisk} :
          \E r \in {ProcessNode(wnode[w], ignoreSystem, disk)} : Processed(w, r)
    /\ UNCHANGED <<inputs, report, removed, cacheOrder, wkey, mainPc, resIdx, pass>>

\* Lines 315-316, under the lock.
Store(w) ==
    /\ wpc[w] = "store"
    /\ cache' = Put(cache, wkey[w], wnode[w])
    /\ wpc' = [wpc EXCEPT ![w] = "done"]
    /\ UNCHANGED <<inputs, report, removed, queue, unfinished, cacheOrder, wnode,
                   wkey, mainPc, resIdx, history, pass>>

\* Lines 321-322, and 324-328 when _processNode raised: the error leaves
\* the worker and is kept in its future.
TaskDone(w) ==
    /\ wpc[w] \in {"done", "failed"}
    /\ unfinished' = unfinished - 1
    /\ wpc' = [wpc EXCEPT ![w] = IF wpc[w] = "failed" THEN "raised" ELSE "get"]
    /\ UNCHANGED <<inputs, report, removed, queue, cache, cacheOrder, wnode, wkey,
                   mainPc, resIdx, history, pass>>

\* A file of the scenario's volatile set vanishes while the traversal runs.
RemoveFile(p) ==
    /\ mainPc = "join"
    /\ Cardinality(removed) < MaxRemovals
    /\ p \notin removed
    /\ removed' = removed \cup {p}
    /\ UNCHANGED <<inputs, report, queue, unfinished, cache, cacheOrder, wpc, wnode,
                   wkey, mainPc, resIdx, history, pass>>

(***************************************************************************)
(* _gatherNodes.                                                           *)
(***************************************************************************)
\* Line 354: nodes.join() returns once no task is unfinished.
Join ==
    /\ mainPc = "join"
    /\ unfinished = 0
    /\ mainPc' = "results"
    /\ UNCHANGED <<inputs, report, removed, queue, unfinished, cache, cacheOrder,
                   wpc, wnode, wkey, resIdx, history, pass>>

\* Mutant of Result: the result of a worker is not waited for.
ResultWithoutWaiting ==
    /\ mainPc = "results"
    /\ IF wpc[resIdx] = "raised"
       THEN mainPc' = "raised" /\ UNCHANGED resIdx
       ELSE IF resIdx = NumWorkers
       THEN mainPc' = "update" /\ UNCHANGED resIdx
       ELSE resIdx' = resIdx + 1 /\ UNCHANGED mainPc
    /\ UNCHANGED <<inputs, report, removed, queue, unfinished, cache, cacheOrder,
                   wpc, wnode, wkey, history, pass>>

\* Line 356: future.result() of each worker in turn; it waits for the
\* worker to end and raises what the worker raised.
Result ==
    /\ mainPc = "results"
    /\ wpc[resIdx] \in {"exited", "raised"}
    /\ IF wpc[resIdx] = "raised"
       THEN mainPc' = "raised" /\ UNCHANGED resIdx
       ELSE IF resIdx = NumWorkers
       THEN mainPc' = "update" /\ UNCHANGED resIdx
       ELSE resIdx' = resIdx + 1 /\ UNCHANGED mainPc
    /\ UNCHANGED <<inputs, report, removed, queue, unfinished, cache, cacheOrder,
                   wpc, wnode, wkey, history, pass>>

(***************************************************************************)
(* _isExcluded, _checkNode, _updateMissing.                                *)
(***************************************************************************)
\* " : ".join(ancestry) + " : ".
RECURSIVE JoinAncestry(_)
JoinAncestry(ancestry) ==
    IF ancestry = <<>> THEN <<>>
    ELSE PathStr(Head(ancestry)) \o <<" : ">> \o JoinAncestry(Tail(ancestry))

\* Lines 363-369.
FullName(node, ancestry) ==
    JoinAncestry(ancestry)
    \o (IF Has(node, "path") THEN PathStr(node["path"])
        ELSE RawStr(node["name"]))

\* re.fullmatch of a pattern of literals and ".*".
RECURSIVE FullMatch(_, _)
FullMatch(pat, str) ==
    IF pat = <<>> THEN str = <<>>
    ELSE IF Head(pat) = ".*"
    THEN \E i \in 0..Len(str) :
            FullMatch(Tail(pat), SubSeq(str, i + 1, Len(str)))
    ELSE str # <<>> /\ Head(str) = Head(pat)
         /\ FullMatch(Tail(pat), Tail(str))

\* str(entry) of a compiled pattern.
PatternStr(entry) == <<"re.compile(">> \o entry \o <<")">>

\* Lines 370-373.
RECURSIVE FirstMatch(_, _)
FirstMatch(entries, fullName) ==
    IF entries = <<>>
    THEN [excluded |-> FALSE, pattern |-> <<"None">>, exclusionId |-> fullName]
    ELSE IF FullMatch(Head(entries), fullName)
    THEN [excluded |-> TRUE, pattern |-> PatternStr(Head(entries)),
          exclusionId |-> fullName]
    ELSE FirstMatch(Tail(entries), fullName)

\* Lines 362-373.
IsExcluded(node, entries, ancestry) ==
    With(FullName(node, ancestry),
         LAMBDA fullName : FirstMatch(entries, fullName))

\* The places <<slice, reference>> of a node's descriptors, in the order
\* lines 393-394 visit them.
RECURSIVE FlatFrom(_, _)
FlatFrom(arch, a) ==
    IF a > Len(arch) THEN <<>>
    ELSE [d \in 1..Len(arch[a].dependencies) |-> <<a, d>>]
         \o FlatFrom(arch, a + 1)

FlatDeps(node) == FlatFrom(node["arch"], 1)

DepAt(node, place) == node["arch"][place[1]].dependencies[place[2]]

SetDep(node, place, dep) ==
    Put(node, "arch",
        [node["arch"] EXCEPT ![place[1]].dependencies[place[2]] = dep])

\* What a call of _checkNode hands back at once, and the frame of a call
\* that goes on to the node's descriptors.
Returned(nodes, satisfied) ==
    [nodes |-> nodes, returned |-> TRUE, satisfied |-> satisfied,
     frame |-> <<>>]
Entered(nodes, key, ancestry) ==
    [nodes |-> nodes, returned |-> FALSE, satisfied |-> TRUE,
     frame |-> <<[key |-> key, ancestry |-> ancestry, pos |-> 1]>>]

\* Lines 381-391, e being what _isExcluded gave for the node.
EnterNode(nodes, key, node, e, ancestry) ==
    IF ~Has(node, "parsed") \/ ~node["parsed"]
    THEN Returned(Put(nodes, key,
                      Update(Update(node, e),
                             [satisfied |-> e.excluded, missing |-> <<>>])),
                  e.excluded)
    ELSE Entered(Put(nodes, key,
                     Update(Update(node, e),
                            [satisfied |-> TRUE, missing |-> <<>>])),
                 key, Append(ancestry, node["path"]))

\* Lines 378-379: a node that has satisfied is not looked at again.
Memoized(node) == Has(node, "satisfied")

\* Lines 377-391: the call _checkNode(nodes[key], nodes, exclusions, ancestry).
CheckNodeCall(nodes, key, entries, ancestry) ==
    IF Memoized(nodes[key])
    THEN Returned(nodes, nodes[key]["satisfied"])
    ELSE With(IsExcluded(nodes[key], entries, ancestry),
              LAMBDA e : EnterNode(nodes, key, nodes[key], e, ancestry))

\* Lines 405-408: the caller, after the call for the descriptor at place
\* returned.  The descriptor appended to missing is the one of the slice,
\* and its "missing" is the child's list itself: both are kept as references.
AfterCall(nodes, key, place, satisfied, childKey) ==
    IF satisfied THEN nodes
    ELSE Put(nodes, key,
             Update(SetDep(nodes[key], place,
                           Put(DepAt(nodes[key], place), "missing", childKey)),
                    [satisfied |-> FALSE,
                     missing   |-> Append(nodes[key]["missing"], place)]))

\* Mutant of Unresolved: an excluded unresolved descriptor fails the node too.
UnresolvedAlwaysFails(node, place, dep) ==
    Update(SetDep(node, place, dep),
           [satisfied |-> FALSE,
            missing   |-> Append(node["missing"], place)])

\* Lines 396-399.
Unresolved(node, place, dep) ==
    Update(SetDep(node, place, dep),
           [satisfied |-> IF ~dep["excluded"] THEN FALSE ELSE node["satisfied"],
            missing   |-> Append(node["missing"], place)])

Advance(stk) == [stk EXCEPT ![Len(stk)].pos = @ + 1]

\* What one turn of the loop of lines 394-408 leaves.
Step(nodes, stk, failed) == [nodes |-> nodes, stack |-> stk, failed |-> failed]

\* Mutant of Called: the callee appends to the list it was handed, which is
\* the one list every open call holds.
CalledSharingAncestry(stk, top, place, childKey, c) ==
    IF c.returned
    THEN Step(AfterCall(c.nodes, top.key, place, c.satisfied, childKey),
              Advance(stk), FALSE)
    ELSE Step(c.nodes,
              [i \in 1..Len(stk) |->
                  [stk[i] EXCEPT !.ancestry = c.frame[1].ancestry]] \o c.frame,
              FALSE)

\* Lines 404-408, c being what the call for the descriptor gave.
Called(stk, top, place, childKey, c) ==
    IF c.returned
    THEN Step(AfterCall(c.nodes, top.key, place, c.satisfied, childKey),
              Advance(stk), FALSE)
    ELSE Step(c.nodes, stk \o c.frame, FALSE)

\* Lines 400-408: a descriptor with a path.  nodes[key] of a key the cache
\* lacks raises KeyError.
Resolved(nodes, stk, top, place, dep, childKey, entries) ==
    IF dep["system"] THEN Step(nodes, Advance(stk), FALSE)
    ELSE IF childKey \notin DOMAIN nodes THEN Step(nodes, stk, TRUE)
    ELSE With(CheckNodeCall(nodes, childKey, entries, top.ancestry),
              LAMBDA c : Called(stk, top, place, childKey, c))

\* Lines 395-408, dep being the descriptor with its exclusion written.
Dependency(nodes, stk, top, place, dep, entries) ==
    IF ~Has(dep, "path")
    THEN Step(Put(nodes, top.key, Unresolved(nodes[top.key], place, dep)),
              Advance(stk), FALSE)
    ELSE With(Put(nodes, top.key, SetDep(nodes[top.key], place, dep)),
              LAMBDA written :
                  With(MakeCacheKey(dep),
                       LAMBDA childKey :
                           Resolved(written, stk, top, place, dep, childKey,
                                    entries)))

\* Line 395.
WithExclusion(dep, entries, ancestry) ==
    Update(dep, IsExcluded(dep, entries, ancestry))

\* Lines 394-408: the descriptor at the top frame's place.
DependencyStep(nodes, stk, top, place, entries) ==
    With(WithExclusion(DepAt(nodes[top.key], place), entries, top.ancestry),
         LAMBDA dep : Dependency(nodes, stk, top, place, dep, entries))

Top == stack[Len(stack)]

\* What a step of the pass leaves in the cache and on the stack.
Stepped(st) ==
    /\ cache' = st.nodes
    /\ stack' = st.stack
    /\ mainPc' = IF st.failed THEN "failed" ELSE mainPc

\* Lines 394-408: _checkNode looks at the next descriptor of its node.
CheckDependency ==
    /\ mainPc = "update"
    /\ stack # <<>>
    /\ Top.pos <= Len(FlatDeps(cache[Top.key]))
    /\ \E st \in {DependencyStep(cache, stack, Top,
                                   FlatDeps(cache[Top.key])[Top.pos],
                                   exclusions)} : Stepped(st)
    /\ UNCHANGED <<inputs, report, removed, queue, unfinished, cacheOrder, wpc, wnode,
                   wkey, resIdx, history, umIdx>>

\* Mutant of Override: an excluded node keeps what its descriptors gave.
OverrideNever(node) == node

\* Lines 410-411.
Override(node) ==
    IF node["excluded"] THEN Put(node, "satisfied", TRUE) ELSE node

\* The keys of the lists that _missingTreeRecord goes into from the
\* missing list of the node at key (lines 74-79).
MissingChildren(nodes, key) ==
    IF ~Has(nodes[key], "missing") THEN {}
    ELSE { DepAt(nodes[key], nodes[key]["missing"][i])["missing"] :
             i \in { j \in 1..Len(nodes[key]["missing"]) :
                       Has(DepAt(nodes[key], nodes[key]["missing"][j]), "path") } }

RECURSIVE MissingReach(_, _, _)
MissingReach(nodes, frontier, seen) ==
    IF frontier \subseteq seen THEN seen
    ELSE MissingReach(nodes,
                      UNION { MissingChildren(nodes, k) : k \in frontier \ seen },
                      seen \cup frontier)

\* Line 423: _nodeToRecord walks the root's missing tree (lines 157-160,
\* 71-91); a tree that leads back into itself has no end and the walk ends
\* in RecursionError.
RecordRaises(nodes, key) ==
    \E k \in MissingReach(nodes, {key}, {}) :
       k \in MissingReach(nodes, MissingChildren(nodes, k), {})

\* Lines 421-423 done for a root: the record is made, the loop goes on.
RootDone(nodes, key) ==
    /\ cache' = nodes
    /\ stack' = <<>>
    /\ IF RecordRaises(nodes, key)
       THEN mainPc' = "failed" /\ UNCHANGED umIdx
       ELSE umIdx' = umIdx + 1 /\ UNCHANGED mainPc

\* Lines 410-413 and 405-408: a call of _checkNode returns to its caller.
Return(nodes, key, caller) ==
    /\ cache' = AfterCall(nodes, caller.key,
                          FlatDeps(nodes[caller.key])[caller.pos],
                          nodes[key]["satisfied"], key)
    /\ stack' = Advance(Front(stack))
    /\ UNCHANGED <<mainPc, umIdx>>

CheckReturn ==
    /\ mainPc = "update"
    /\ stack # <<>>
    /\ Top.pos > Len(FlatDeps(cache[Top.key]))
    /\ IF Len(stack) = 1
       THEN RootDone(Put(cache, Top.key, Override(cache[Top.key])), Top.key)
       ELSE Return(Put(cache, Top.key, Override(cache[Top.key])), Top.key,
                   stack[Len(stack) - 1])
    /\ UNCHANGED <<inputs, report, removed, queue, unfinished, cacheOrder, wpc, wnode,
                   wkey, resIdx, history>>

\* Lines 418-419.
IsRoot(node) == Has(node, "root") /\ node["root"]

\* Lines 421-423, c being what the call for the root gave.
RootCalled(key, c) ==
    IF c.returned THEN RootDone(c.nodes, key)
    ELSE /\ cache' = c.nodes
         /\ stack' = c.frame
         /\ UNCHANGED <<mainPc, umIdx>>

\* Lines 417-421: the loop of _updateMissing comes to the next node.
UpdateMissing ==
    /\ mainPc = "update"
    /\ stack = <<>>
    /\ IF umIdx > Len(cacheOrder)
       THEN mainPc' = "done" /\ UNCHANGED <<cache, umIdx, stack>>
       ELSE IF ~IsRoot(cache[cacheOrder[umIdx]])
       THEN umIdx' = umIdx + 1 /\ UNCHANGED <<cache, mainPc, stack>>
       ELSE RootCalled(cacheOrder[umIdx],
                       CheckNodeCall(cache, cacheOrder[umIdx], exclusions, <<>>))
    /\ UNCHANGED <<inputs, report, removed, queue, unfinished, cacheOrder, wpc, wnode,
                   wkey, resIdx, history>>

(***************************************************************************)
(* _makeReport, as collect calls it once _collectDependencies returned.    *)
(***************************************************************************)
\* Lines 513-516 and 519-522: pop("exclusionId"), pop("pattern").
Strip(d) == Pop(Pop(d, "exclusionId"), "pattern")

\* Lines 517-522: the descriptors of every slice.
StripSlices(arch) ==
    [a \in 1..Len(arch) |->
        [arch[a] EXCEPT !.dependencies =
            [d \in 1..Len(arch[a].dependencies) |->
                Strip(arch[a].dependencies[d])]]]

\* Lines 513-522 for one entry that holds "arch".
StripEntry(entry) == Put(Strip(entry), "arch", StripSlices(entry["arch"]))

\* Lines 512-522: the entries in the order of the cache.  entry["arch"] of
\* an entry that holds no "arch" raises KeyError, the entries before it
\* and the entry's own two fields being popped already.
RECURSIVE ReportEntries(_, _, _)
ReportEntries(nodes, keys, entries) ==
    IF keys = <<>>
    THEN [nodes |-> nodes, root |-> entries, raised |-> FALSE]
    ELSE IF ~Has(nodes[Head(keys)], "arch")
    THEN [nodes |-> Put(nodes, Head(keys), Strip(nodes[Head(keys)])),
          root |-> <<>>, raised |-> TRUE]
    ELSE With(StripEntry(nodes[Head(keys)]),
              LAMBDA entry :
                  ReportEntries(Put(nodes, Head(keys), entry), Tail(keys),
                                Append(entries, entry)))

\* Lines 510-523: root = list(nodes.values()), every entry stripped.
MakeReportOf(nodes, keys) == ReportEntries(nodes, keys, <<>>)

\* Lines 563-566: collect makes the report of the nodes it got and returns
\* it; an error of _makeReport leaves collect.
MakeReport ==
    /\ mainPc = "done"
    /\ \E r \in {MakeReportOf(cache, cacheOrder)} :
          /\ cache' = r.nodes
          /\ report' = r.root
          /\ mainPc' = IF r.raised THEN "reportRaised" ELSE "returned"
    /\ UNCHANGED <<inputs, removed, queue, unfinished, cacheOrder, wpc, wnode,
                   wkey, resIdx, history, pass>>

Next ==
    \/ \E w \in Workers : Get(w)
    \/ \E w \in Workers : Timeout(w)
    \/ \E w \in Workers : Claim(w)
    \/ \E w \in Workers : Process(w)
    \/ \E w \in Workers : Store(w)
    \/ \E w \in Workers : TaskDone(w)
    \/ \E p \in Scenarios[scn].volatile : RemoveFile(p)
    \/ Join
    \/ Result
    \/ UpdateMissing
    \/ CheckDependency
    \/ CheckReturn
    \/ MakeReport

Spec == Init /\ [][Next]_vars

\* The workers and the caller are threads the interpreter keeps running:
\* each takes its next step if it can.  Nothing makes a file vanish.
WorkerStep(w) ==
    Get(w) \/ Timeout(w) \/ Claim(w) \/ Process(w) \/ Store(w) \/ TaskDone(w)
MainStep ==
    Join \/ Result \/ UpdateMissing \/ CheckDependency \/ CheckReturn
    \/ MakeReport

FairSpec ==
    /\ Init
    /\ [][Next]_vars
    /\ \A w \in Workers : WF_vars(WorkerStep(w))
    /\ WF_vars(MainStep)

(***************************************************************************)
(* _makeCacheKey on its own: each worker holds a node of the shapes the    *)
(* program makes (line 348 for a root, lines 265-273 for a child) and      *)
(* line 298 computes its key.                                              *)
(***************************************************************************)
KeyPaths == { <<"k", "lib">>, <<"k", "lib@x86_64@[]">> }
KeyArchs == { "x86_64", "arm64" }
KeyStacks == { <<>>, << <<"p">>, <<"q">> >>, << <<"q">>, <<"p">> >> }
KeyExecutablePaths == { <<"k">> }

\* Lines 265-273: a child with and without an inherited @executable_path.
KeyChildren ==
    { [path |-> p, parentRpathStack |-> st, restrictarch |-> a,
       system |-> IsSystemLib(p)] :
        p \in KeyPaths, st \in KeyStacks, a \in KeyArchs }
KeyNodes ==
    { RootNode(p) : p \in KeyPaths }
    \cup KeyChildren
    \cup { Put(n, "@executable_path", e) :
             n \in KeyChildren, e \in KeyExecutablePaths }

KeyInit ==
    /\ scn = 1
    /\ ignoreSystem = FALSE
    /\ exclusions = <<>>
    /\ removed = {}
    /\ queue = <<>>
    /\ unfinished = 0
    /\ cache = <<>>
    /\ cacheOrder = <<>>
    /\ wpc = [w \in Workers |-> "get"]
    /\ wnode \in [Workers -> KeyNodes]
    /\ wkey = [w \in Workers |-> NoKey]
    /\ mainPc = "join"
    /\ resIdx = 1
    /\ putCount = <<>>
    /\ procCount = <<>>
    /\ effStack = <<>>
    /\ umIdx = 1
    /\ stack = <<>>
    /\ report = <<>>

\* Line 298.
MakeKey(w) ==
    /\ wpc[w] = "get"
    /\ wkey' = [wkey EXCEPT ![w] = MakeCacheKey(wnode[w])]
    /\ wpc' = [wpc EXCEPT ![w] = "claim"]
    /\ UNCHANGED <<inputs, report, removed, queue, unfinished, cache, cacheOrder,
                   wnode, mainPc, resIdx, history, pass>>

KeyNext == \E w \in Workers : MakeKey(w)

KeySpec == KeyInit /\ [][KeyNext]_vars

(***************************************************************************)
(* What the properties speak of.                                           *)
(***************************************************************************)
\* _gatherNodes returned the cache; _updateMissing went through it;
\* collect returned the report.
GatherReturned ==
    mainPc \in {"update", "done", "failed", "returned", "reportRaised"}
PassDone == mainPc \in {"done", "returned", "reportRaised"}
CollectReturned == mainPc = "returned"
WorkerRaised == \E w \in Workers : wpc[w] \in {"failed", "raised"}

Slices(node) ==
    IF Has(node, "arch")
    THEN { node["arch"][i] : i \in 1..Len(node["arch"]) } ELSE {}
SliceDescriptors(slice) ==
    { slice.dependencies[i] : i \in 1..Len(slice.dependencies) }
Descriptors(node) == UNION { SliceDescriptors(s) : s \in Slices(node) }

HasPath(d) == Has(d, "path")
SystemFlag(d) == Has(d, "system") /\ d["system"]
ExcludedFlag(d) == Has(d, "excluded") /\ d["excluded"]
SatisfiedFlag(d) == Has(d, "satisfied") /\ d["satisfied"]
ParsedFlag(d) == Has(d, "parsed") /\ d["parsed"]

RootKeys == { k \in DOMAIN cache : IsRoot(cache[k]) }

\* The nodes a node's resolved non-system descriptors lead to, and those
\* any chain of such descriptors leads to from a node (itself included).
ChildKeys(key) ==
    { MakeCacheKey(d) :
        d \in { e \in Descriptors(cache[key]) : HasPath(e) /\ ~SystemFlag(e) } }
    \cap DOMAIN cache

RECURSIVE ReachFrom(_, _)
ReachFrom(frontier, seen) ==
    IF frontier \subseteq seen THEN seen
    ELSE ReachFrom(UNION { ChildKeys(k) : k \in frontier \ seen },
                   seen \cup frontier)
Reach(key) == ReachFrom({key}, {})

MissesDependency(node) ==
    \E d \in Descriptors(node) : ~HasPath(d) /\ ~ExcludedFlag(d)

IsPrefix(s, t) == Len(s) <= Len(t) /\ SubSeq(t, 1, Len(s)) = s
NoDuplicates(s) == \A i, j \in 1..Len(s) : s[i] = s[j] => i = j

\* A slice of the node's file that _processNode keeps is of type EXECUTE.
HasExecuteSlice(node) ==
    /\ ParsedFlag(node)
    /\ \E i \in 1..Len(Scenarios[scn].files[node["path"]].headers) :
          LET header == Scenarios[scn].files[node["path"]].headers[i] IN
          /\ header.filetype = "EXECUTE"
          /\ Has(node, "restrictarch") => header.arch = node["restrictarch"]

\* The node less the @executable_path it holds.
WithoutExecutablePath(node) ==
    [f \in (DOMAIN node) \ {"@executable_path"} |-> node[f]]

\* The keys the node can have had before _processNode wrote to it.
KeysBeforeProcessing(node) ==
    { MakeCacheKey(WithoutExecutablePath(node)) }
    \cup { MakeCacheKey(Put(node, "@executable_path", dir)) :
             dir \in DirsOf(Scenarios[scn].files) }

(***************************************************************************)
(* C1                                                                      *)
(***************************************************************************)
\* C1: in every interleaving of the workers each cache key is handed to
\* _processNode at most once, two workers never hold items of the same key
\* between the claim and the store, and once _gatherNodes has returned every
\* key that was ever put on the queue was processed exactly once.
C1_ProcessedOncePerKey ==
    /\ \A k \in DOMAIN procCount : procCount[k] <= 1
    /\ \A w1, w2 \in Workers :
          (/\ w1 # w2
           /\ wpc[w1] \in {"process", "store"}
           /\ wpc[w2] \in {"process", "store"}) => wkey[w1] # wkey[w2]
    /\ GatherReturned =>
          \A k \in DOMAIN putCount : Count(procCount, k) = 1

\* A key was put on the queue more than once, a second item was skipped
\* and the traversal returned.
C1_Witness ==
    /\ GatherReturned
    /\ \E k \in DOMAIN putCount : putCount[k] > 1 /\ Count(procCount, k) = 1

(***************************************************************************)
(* C2                                                                      *)
(***************************************************************************)
\* C2: after _updateMissing, when a node reachable from a root through
\* resolved non-system descriptors has an unresolved descriptor that is not
\* excluded, every node on every descriptor path from the root to that node
\* has satisfied = false.
C2_MissingReachesEveryAncestor ==
    PassDone =>
        \A r \in RootKeys : \A n \in Reach(r) :
            MissesDependency(cache[n]) =>
                \A x \in Reach(r) :
                    n \in Reach(x) =>
                        Has(cache[x], "satisfied") /\ ~cache[x]["satisfied"]

(***************************************************************************)
(* C3                                                                      *)
(***************************************************************************)
\* What C3 gives as the value of satisfied.
SatisfiedByRule(node) ==
    /\ ParsedFlag(node) \/ ExcludedFlag(node)
    /\ \A d \in Descriptors(node) :
          (~SystemFlag(d) /\ ~ExcludedFlag(d)) =>
              \/ /\ HasPath(d)
                 /\ MakeCacheKey(d) \in DOMAIN cache
                 /\ SatisfiedFlag(cache[MakeCacheKey(d)])
              \/ ExcludedFlag(d)

\* C3: after _updateMissing, every node _checkNode visited has satisfied
\* true exactly when it is parsed or excluded and each of its non-system,
\* non-excluded descriptors resolves to a satisfied cache node or matched an
\* exclusion itself.
C3_SatisfiedIff ==
    PassDone =>
        \A k \in DOMAIN cache :
            Has(cache[k], "satisfied") =>
                (cache[k]["satisfied"] <=> SatisfiedByRule(cache[k]))

(***************************************************************************)
(* C4                                                                      *)
(***************************************************************************)
\* C4: after _updateMissing every cache node with excluded = true has
\* satisfied = true, parsed or not and whatever its dependencies; an
\* excluded root is satisfied.
C4_ExcludedIsSatisfied ==
    PassDone =>
        \A k \in DOMAIN cache :
            ExcludedFlag(cache[k]) => SatisfiedFlag(cache[k])

\* An excluded root that parsed and misses a dependency was checked.
C4_Witness ==
    /\ PassDone
    /\ \E k \in RootKeys :
          /\ ExcludedFlag(cache[k])
          /\ ParsedFlag(cache[k])
          /\ MissesDependency(cache[k])
          /\ SatisfiedFlag(cache[k])

(***************************************************************************)
(* C5                                                                      *)
(***************************************************************************)
\* C5 as stated: when the traversal has finished every node N of the cache
\* has _makeCacheKey(N) equal to the key it is stored under, a root of file
\* type EXECUTE included.
C5_KeyMatchesNode ==
    GatherReturned =>
        \A k \in DOMAIN cache : MakeCacheKey(cache[k]) = k

\* C5, amended: when the traversal has finished every node N of the cache
\* is stored under the key of its fields as they were before _processNode
\* wrote @executable_path, and _makeCacheKey(N) is that key for every node
\* that has no kept slice of file type EXECUTE.
C5_KeyMatchesNodeAsDequeued ==
    GatherReturned =>
        \A k \in DOMAIN cache :
            /\ k \in KeysBeforeProcessing(cache[k])
            /\ ~HasExecuteSlice(cache[k]) => MakeCacheKey(cache[k]) = k

\* The traversal finished with an executable whose key is not the one it
\* is stored under, and with a processed child whose key is.
C5_Witness ==
    /\ GatherReturned
    /\ \E k \in DOMAIN cache :
          HasExecuteSlice(cache[k]) /\ MakeCacheKey(cache[k]) # k
    /\ \E k \in DOMAIN cache :
          /\ ~HasExecuteSlice(cache[k])
          /\ ParsedFlag(cache[k])
          /\ Has(cache[k], "@executable_path")
          /\ MakeCacheKey(cache[k]) = k

(***************************************************************************)
(* C6                                                                      *)
(***************************************************************************)
\* C6 as stated: when the traversal has finished, every descriptor with a
\* resolved path in a processed cache node has a cache entry under its key,
\* with and without ignoreSystem, system or not.
C6_DescriptorHasNode ==
    GatherReturned =>
        \A k \in DOMAIN cache : \A d \in Descriptors(cache[k]) :
            HasPath(d) => MakeCacheKey(d) \in DOMAIN cache

\* C6, amended: when the traversal has finished, every descriptor with a
\* resolved path in a processed cache node has a cache entry under its key
\* unless ignoreSystem is set and the descriptor is a system one.
C6_DescriptorHasNodeUnlessIgnored ==
    GatherReturned =>
        \A k \in DOMAIN cache : \A d \in Descriptors(cache[k]) :
            (HasPath(d) /\ ~(ignoreSystem /\ SystemFlag(d))) =>
                MakeCacheKey(d) \in DOMAIN cache

\* The traversal finished with system descriptors whose nodes are in the
\* cache (ignoreSystem unset) or lacking among non-system ones that are
\* there (ignoreSystem set).
C6_Witness ==
    /\ GatherReturned
    /\ \E k \in DOMAIN cache : \E d \in Descriptors(cache[k]) :
          HasPath(d) /\ ~SystemFlag(d) /\ MakeCacheKey(d) \in DOMAIN cache
    /\ \E k \in DOMAIN cache : \E d \in Descriptors(cache[k]) :
          /\ HasPath(d) /\ SystemFlag(d)
          /\ (MakeCacheKey(d) \in DOMAIN cache) <=> ~ignoreSystem

(***************************************************************************)
(* C7                                                                      *)
(***************************************************************************)
\* C7: with ignoreSystem set, in every reachable state no node with
\* system = true is on the queue, in a worker's hands or in the cache, and
\* a cache node whose path is a system library is a root.
C7_NoSystemNodeWhenIgnored ==
    ignoreSystem =>
        /\ \A i \in 1..Len(queue) : ~SystemFlag(queue[i])
        /\ \A w \in Workers : ~SystemFlag(wnode[w])
        /\ \A k \in DOMAIN cache :
              /\ ~SystemFlag(cache[k])
              /\ IsSystemLib(cache[k]["path"]) => IsRoot(cache[k])

\* With ignoreSystem set the traversal finished with a system library in
\* the cache as a root and a system descriptor that has no node.
C7_Witness ==
    /\ ignoreSystem
    /\ GatherReturned
    /\ \E k \in DOMAIN cache : IsSystemLib(cache[k]["path"])
    /\ \E k \in DOMAIN cache : \E d \in Descriptors(cache[k]) :
          HasPath(d) /\ SystemFlag(d) /\ MakeCacheKey(d) \notin DOMAIN cache

(***************************************************************************)
(* C8                                                                      *)
(***************************************************************************)
\* C8: a child made from a slice of a parent has the parent's effective
\* rpath stack of that slice as its parentRpathStack, and the effective
\* stack the child computes for a slice of its own starts with the parent's
\* stack, in order, and holds no entry twice.
C8_RpathStackCascades ==
    \A k \in DOMAIN effStack : \A s \in Slices(cache[k]) :
        \A d \in SliceDescriptors(s) :
            HasPath(d) =>
                /\ d["parentRpathStack"] = effStack[k][s.name]
                /\ MakeCacheKey(d) \in DOMAIN effStack =>
                      \A a \in DOMAIN effStack[MakeCacheKey(d)] :
                          /\ IsPrefix(effStack[k][s.name],
                                      effStack[MakeCacheKey(d)][a])
                          /\ NoDuplicates(effStack[MakeCacheKey(d)][a])

\* A processed child inherited a stack, added an rpath of its own to it
\* and left out one that was there already.
C8_Witness ==
    \E k \in DOMAIN effStack : \E s \in Slices(cache[k]) :
        /\ Has(cache[k], "parentRpathStack")
        /\ cache[k]["parentRpathStack"] # <<>>
        /\ s.name \in DOMAIN effStack[k]
        /\ Len(effStack[k][s.name]) > Len(cache[k]["parentRpathStack"])
        /\ Len(effStack[k][s.name])
              < Len(cache[k]["parentRpathStack"]) + Len(s.rpaths)

(***************************************************************************)
(* C9                                                                      *)
(***************************************************************************)
\* C9: once a worker has raised while it handled a queue item, in every
\* interleaving _gatherNodes goes on to raise to its caller; it never
\* returns the cache.
C9_WorkerErrorPropagates ==
    /\ [](WorkerRaised => <>(mainPc = "raised"))
    /\ [](WorkerRaised => ~GatherReturned)

(***************************************************************************)
(* C10                                                                     *)
(***************************************************************************)
\* _gatherNodes has returned, the queue empty, no task outstanding and
\* every key that was put on the queue in the cache.
ReturnedComplete ==
    /\ GatherReturned
    /\ queue = <<>>
    /\ unfinished = 0
    /\ \A k \in DOMAIN putCount : k \in DOMAIN cache

\* C10: in a run where no worker raises, whatever the interleaving and
\* whichever idle workers leave on the dequeue timeout, _gatherNodes
\* comes to return with the queue empty, no task outstanding and every key
\* that was put on the queue in the cache.
C10_TraversalReturns == ([]~WorkerRaised) => <>ReturnedComplete

\* The traversal of the libraries that depend on each other returned
\* after a key had come up on the queue again.
C10_Witness ==
    /\ scn = 2
    /\ ReturnedComplete
    /\ \E k \in DOMAIN putCount : putCount[k] > 1

(***************************************************************************)
(* C11                                                                     *)
(***************************************************************************)
\* C11: every entry of the list _makeReport returns, and so collect, is a
\* cache node with root = true; a node that was only found as a dependency
\* is no entry of the report.
C11_ReportHoldsOnlyRoots ==
    CollectReturned => \A i \in 1..Len(report) : IsRoot(report[i])

(***************************************************************************)
(* C12                                                                     *)
(***************************************************************************)
\* The file of the node was there and the parser refused it.
ParseFailed(node) ==
    /\ Has(node, "exists") /\ node["exists"]
    /\ Has(node, "parsed") /\ ~node["parsed"]

\* C12: a node whose existing file the parser refused is recorded with
\* parsed = false and without slices, the pass gives it satisfied =
\* excluded and an empty missing list, and the run goes on: _makeReport
\* does not raise and collect returns the report.
C12_ParseFailureDoesNotAbort ==
    \A k \in DOMAIN cache :
        ParseFailed(cache[k]) =>
            /\ ~Has(cache[k], "arch")
            /\ Has(cache[k], "satisfied") =>
                  /\ cache[k]["satisfied"] = cache[k]["excluded"]
                  /\ cache[k]["missing"] = <<>>
            /\ mainPc # "reportRaised"

(***************************************************************************)
(* C13                                                                     *)
(***************************************************************************)
\* Lines 286-322 run by one worker alone from a queue holding work: each
\* item is taken in turn, skipped if its key is cached, processed otherwise,
\* and what it puts goes to the end of the queue.
RECURSIVE Traverse(_, _, _, _)
Traverse(work, st, ignore, disk) ==
    IF work = <<>> THEN st
    ELSE With(MakeCacheKey(Head(work)),
              LAMBDA key :
                  IF ~MayProcess(key, st.nodes)
                  THEN Traverse(Tail(work), st, ignore, disk)
                  ELSE With(ProcessNode(Head(work), ignore, disk),
                            LAMBDA r :
                                Traverse(Tail(work) \o r.puts,
                                         [nodes |-> Put(st.nodes, key, r.node),
                                          order |-> Append(st.order, key)],
                                         ignore, disk)))

\* Lines 338-358 with a single worker: the cache a sequential traversal of
\* the roots, in the order the scenario lists them, builds.
SequentialTraversal(s, ignore) ==
    Traverse([i \in 1..Len(Scenarios[s].roots) |-> RootNode(Scenarios[s].roots[i])],
             [nodes |-> <<>>, order |-> <<>>], ignore,
             Disk(Scenarios[s].files, {}))

\* _gatherNodes has just returned: nothing of _updateMissing has run yet.
AtGatherReturn == mainPc = "update" /\ umIdx = 1 /\ stack = <<>>

\* C13: for files that do not change during the run, the cache
\* _gatherNodes returns is the same whatever the interleaving of the
\* workers and the order of the roots: it has the keys a sequential
\* traversal of the same roots produces, and under each key the same node
\* (exists, parsed, slices, rpaths and descriptors).
C13_CacheIsDeterministic ==
    (AtGatherReturn /\ removed = {}) =>
        cache = SequentialTraversal(scn, ignoreSystem).nodes

\* A run whose workers filled the cache in another order than the
\* sequential traversal does, with a key reached along two chains.
C13_Witness ==
    /\ AtGatherReturn /\ removed = {}
    /\ cacheOrder # SequentialTraversal(scn, ignoreSystem).order
    /\ \E k \in DOMAIN putCount : putCount[k] > 1

(***************************************************************************)
(* C14                                                                     *)
(***************************************************************************)
\* C14: @executable_path is set at the first node of file type EXECUTE of
\* a chain and handed down unchanged: a node that a descriptor gave an
\* @executable_path keeps that value through _processNode, whatever its own
\* file type.
C14_ExecutablePathSetOnce ==
    \A k \in DOMAIN cache :
        \A d \in Descriptors(cache[k]) :
            (HasPath(d) /\ Has(d, "@executable_path")
                /\ MakeCacheKey(d) \in DOMAIN cache) =>
                /\ Has(cache[MakeCacheKey(d)], "@executable_path")
                /\ cache[MakeCacheKey(d)]["@executable_path"]
                       = d["@executable_path"]

(***************************************************************************)
(* C15                                                                     *)
(***************************************************************************)
\* C15: a call of _processNode for a path that is not on disk leaves the
\* node with exists = false and parsed = false and raises nothing: the
\* worker goes on to store the node.
C15_MissingPathIsRecorded ==
    \A w \in Workers :
        (/\ wpc[w] \in {"store", "failed"}
         /\ Has(wnode[w], "exists") /\ ~wnode[w]["exists"]) =>
            /\ wpc[w] = "store"
            /\ Has(wnode[w], "parsed") /\ ~wnode[w]["parsed"]

(***************************************************************************)
(* C16                                                                     *)
(***************************************************************************)
\* Line 257 for every entry of a stack: what _resolvePath gives for the
\* name with @rpath replaced by the entry.
RpathCandidates(node, fileName, rpathStack, disk) ==
    [i \in 1..Len(rpathStack) |->
        ResolvePath(node, StrReplace(fileName, "@rpath", rpathStack[i]), disk)]

UsesRpath(d) == Contains(d["name"].comps, "@rpath")

\* The descriptors of a node for which line 278 put a child on the queue.
Enqueued(node) ==
    IF ~Has(node, "arch") THEN {}
    ELSE { i \in 1..Len(FlatDeps(node)) :
             /\ HasPath(DepAt(node, FlatDeps(node)[i]))
             /\ ShouldEnqueue(ignoreSystem, DepAt(node, FlatDeps(node)[i])) }

RECURSIVE SumOver(_, _)
SumOver(f, S) ==
    IF S = {} THEN 0
    ELSE LET x == CHOOSE y \in S : TRUE IN f[x] + SumOver(f, S \ {x})

\* C16: a reference that uses @rpath is resolved to the candidate of the
\* first entry of the slice's effective rpath stack whose candidate exists;
\* when no entry gives an existing candidate (or the stack is empty) the
\* descriptor stays name-only, and nothing is put on the queue for it: the
\* nodes put are the roots and one per resolved descriptor that line 277
\* lets through.
C16_RpathFirstMatch ==
    /\ removed = {} =>
          \A k \in DOMAIN effStack : \A s \in Slices(cache[k]) :
              \A d \in SliceDescriptors(s) :
                  UsesRpath(d) =>
                      LET c == RpathCandidates(cache[k], d["name"],
                                               effStack[k][s.name], TheDisk)
                          hits == { i \in 1..Len(c) : c[i].exists }
                      IN  IF hits = {} THEN ~HasPath(d)
                          ELSE /\ HasPath(d)
                               /\ \E i \in hits :
                                     /\ \A j \in hits : i <= j
                                     /\ d["path"] = c[i].path
    /\ SumOver(putCount, DOMAIN putCount)
          = Len(Scenarios[scn].roots)
            + SumOver([k \in DOMAIN procCount |-> Cardinality(Enqueued(cache[k]))],
                      DOMAIN procCount)

\* A processed slice holds an @rpath reference that two stack entries could
\* satisfy, and one that none satisfies.
C16_Witness ==
    /\ removed = {}
    /\ \E k \in DOMAIN effStack : \E s \in Slices(cache[k]) :
          /\ \E d \in SliceDescriptors(s) :
                /\ UsesRpath(d) /\ HasPath(d)
                /\ Cardinality({ i \in 1..Len(effStack[k][s.name]) :
                      RpathCandidates(cache[k], d["name"], effStack[k][s.name],
                                      TheDisk)[i].exists }) > 1
    /\ \E k \in DOMAIN effStack : \E s \in Slices(cache[k]) :
          /\ effStack[k][s.name] # <<>>
          /\ \E d \in SliceDescriptors(s) : UsesRpath(d) /\ ~HasPath(d)

(***************************************************************************)
(* C17                                                                     *)
(***************************************************************************)
\* The call of _checkNode for the node at key went past line 391 and has
\* returned.
Checked(key) ==
    /\ GatherReturned
    /\ ParsedFlag(cache[key]) /\ Has(cache[key], "satisfied")
    /\ \A i \in 1..Len(stack) : stack[i].key # key

\* The places of the node's descriptors that have no path.
UnresolvedPlaces(node) ==
    { FlatDeps(node)[i] : i \in { j \in 1..Len(FlatDeps(node)) :
                                    ~HasPath(DepAt(node, FlatDeps(node)[j])) } }

MissingPlaces(node) ==
    { node["missing"][i] : i \in 1..Len(node["missing"]) }

\* C17: once _checkNode has gone through a parsed node, every descriptor
\* of the node that has no path is in the node's missing list, excluded or
\* not; one that is not excluded leaves the node unsatisfied (unless the
\* node itself is excluded, lines 410-411); and a node whose missing list
\* holds nothing but excluded descriptors without a path is satisfied.
C17_UnresolvedGoesToMissing ==
    \A k \in DOMAIN cache :
        Checked(k) =>
            /\ UnresolvedPlaces(cache[k]) \subseteq MissingPlaces(cache[k])
            /\ ((\E p \in UnresolvedPlaces(cache[k]) :
                      ~ExcludedFlag(DepAt(cache[k], p)))
                  /\ ~ExcludedFlag(cache[k]))
                  => ~cache[k]["satisfied"]
            /\ (\A p \in MissingPlaces(cache[k]) :
                      /\ p \in UnresolvedPlaces(cache[k])
                      /\ ExcludedFlag(DepAt(cache[k], p)))
                  => cache[k]["satisfied"]

\* The pass is over and left a node that is satisfied with an excluded
\* descriptor without a path in its missing list, the node itself not
\* being excluded.
C17_Witness ==
    /\ PassDone
    /\ \E k \in DOMAIN cache :
          /\ Checked(k)
          /\ ~ExcludedFlag(cache[k])
          /\ cache[k]["satisfied"]
          /\ \E p \in MissingPlaces(cache[k]) :
                /\ p \in UnresolvedPlaces(cache[k])
                /\ ExcludedFlag(DepAt(cache[k], p))

(***************************************************************************)
(* C18                                                                     *)
(***************************************************************************)
\* Lines 377-413 from a call stack to the return of its bottom call: the
\* cache that call of _checkNode leaves.
RECURSIVE CheckLoop(_, _, _)
CheckLoop(nodes, stk, entries) ==
    With(stk[Len(stk)],
         LAMBDA top :
            IF top.pos <= Len(FlatDeps(nodes[top.key]))
            THEN With(DependencyStep(nodes, stk, top,
                                     FlatDeps(nodes[top.key])[top.pos], entries),
                      LAMBDA st :
                          IF st.failed THEN [nodes |-> st.nodes, failed |-> TRUE]
                          ELSE CheckLoop(st.nodes, st.stack, entries))
            ELSE With(Put(nodes, top.key, Override(nodes[top.key])),
                      LAMBDA done :
                          IF Len(stk) = 1 THEN [nodes |-> done, failed |-> FALSE]
                          ELSE CheckLoop(
                                   AfterCall(done, stk[Len(stk) - 1].key,
                                       FlatDeps(done[stk[Len(stk) - 1].key])
                                           [stk[Len(stk) - 1].pos],
                                       done[top.key]["satisfied"], top.key),
                                   Advance(Front(stk)), entries)))

\* Lines 421-423 for one root.
CheckRoot(nodes, key, entries) ==
    With(CheckNodeCall(nodes, key, entries, <<>>),
         LAMBDA c :
            With(IF c.returned THEN [nodes |-> c.nodes, failed |-> FALSE]
                 ELSE CheckLoop(c.nodes, c.frame, entries),
                 LAMBDA r :
                    [r EXCEPT !.failed = @ \/ RecordRaises(r.nodes, key)]))

\* Lines 416-423: _updateMissing visiting the roots in the order given.
RECURSIVE UpdateMissingOf(_, _, _)
UpdateMissingOf(nodes, roots, entries) ==
    IF roots = <<>> THEN [nodes |-> nodes, failed |-> FALSE]
    ELSE With(CheckRoot(nodes, Head(roots), entries),
              LAMBDA r :
                  IF r.failed THEN r
                  ELSE UpdateMissingOf(r.nodes, Tail(roots), entries))

\* The keys of the roots, in cache order.
RootOrder == SelectSeq(cacheOrder, LAMBDA k : IsRoot(cache[k]))

\* C18: for the cache the traversal built and the exclusion list of the
\* run, the satisfied value _updateMissing gives a root is the same for
\* every order in which the roots can be visited.
C18_SatisfiedIsOrderFree ==
    (PassDone /\ removed = {}) =>
        \A o \in Orders(RootOrder) :
            \A r \in {UpdateMissingOf(
                          SequentialTraversal(scn, ignoreSystem).nodes,
                          o, exclusions)} :
                ~r.failed =>
                    \A k \in RootKeys :
                        r.nodes[k]["satisfied"] = cache[k]["satisfied"]

(***************************************************************************)
(* C19                                                                     *)
(***************************************************************************)
\* The keys the descriptors of the node's missing list lead to.
MissingKeys(node) ==
    { MakeCacheKey(DepAt(node, p)) :
        p \in { q \in MissingPlaces(node) : HasPath(DepAt(node, q)) } }

\* C19: a call of _checkNode for a node that is on the recursion stack
\* returns at once and counts the node as satisfied for the edge it was
\* reached by: no node in progress holds, in its missing list, a
\* descriptor that leads to a node whose call is still open beneath it.
C19_ReEntryCountsAsSatisfied ==
    mainPc = "update" =>
        \A i, j \in 1..Len(stack) :
            i <= j => stack[i].key \notin MissingKeys(cache[stack[j].key])

(***************************************************************************)
(* C20                                                                     *)
(***************************************************************************)
\* C20: from the moment _gatherNodes returns, every worker has ended (none
\* is inside _processNode or about to write the cache), the queue is
\* empty with no task unfinished, and every cache entry is a node that
\* _processNode went through: exists and parsed are set on it.
C20_CacheIsStableAtReturn ==
    GatherReturned =>
        /\ \A w \in Workers : wpc[w] = "exited"
        /\ queue = <<>> /\ unfinished = 0
        /\ \A k \in DOMAIN cache :
              Has(cache[k], "exists") /\ Has(cache[k], "parsed")

\* _gatherNodes has just returned a cache that more than one worker
\* filled, some keys of which were put on the queue more than once.
C20_Witness ==
    /\ AtGatherReturn
    /\ Cardinality(DOMAIN cache) > 2
    /\ \E v, w \in Workers : v # w /\ wkey[v] # NoKey /\ wkey[w] # NoKey
    /\ \E k \in DOMAIN putCount : putCount[k] > 1

(***************************************************************************)
(* C21                                                                     *)
(***************************************************************************)
\* The fields of a node that _makeCacheKey reads.
KeyFields(node) ==
    [f \in {"path", "restrictarch", "@executable_path", "parentRpathStack"}
         \cap DOMAIN node |-> node[f]]

\* C21: two nodes get the same key from _makeCacheKey only if they agree
\* on path, on restrictarch, on @executable_path and on parentRpathStack
\* as an ordered list, each of the last three being on both or on neither.
C21_KeyIsInjective ==
    \A v, w \in Workers :
        (wpc[v] = "claim" /\ wpc[w] = "claim" /\ wkey[v] = wkey[w]) =>
            KeyFields(wnode[v]) = KeyFields(wnode[w])

(***************************************************************************)
(* C22                                                                     *)
(***************************************************************************)
\* The paths of the nodes of the open calls of _checkNode, from the root
\* down to the call at depth i.
ChainPaths(i) == [j \in 1..i |-> cache[stack[j].key]["path"]]

\* The descriptors the call at depth i has gone through (line 395 done).
VisitedPlaces(i) ==
    { FlatDeps(cache[stack[i].key])[p] :
        p \in { q \in 1..Len(FlatDeps(cache[stack[i].key])) : q < stack[i].pos } }

\* C22: a call of _checkNode leaves its caller's ancestry as it was: while
\* the call for a node is open, its ancestry is the paths from the root
\* down to and including the node, in order, whatever calls it has made
\* meanwhile, and every descriptor of the node it has gone through was
\* matched by _isExcluded against that ancestry.
C22_AncestryIsUnchanged ==
    mainPc = "update" =>
        \A i \in 1..Len(stack) :
            /\ stack[i].ancestry = ChainPaths(i)
            /\ \A place \in VisitedPlaces(i) :
                  \A d \in {DepAt(cache[stack[i].key], place)} :
                      /\ d["exclusionId"] = FullName(d, ChainPaths(i))
                      /\ d["excluded"]
                             = IsExcluded(d, exclusions, ChainPaths(i)).excluded

\* A call below the root's has had a call for its first descriptor made
\* and returned, and has gone on to a sibling descriptor, with exclusions
\* in force.
C22_Witness ==
    /\ mainPc = "update"
    /\ exclusions # <<>>
    /\ \E i \in 2..Len(stack) :
          /\ stack[i].pos >= 3
          /\ \E d \in {DepAt(cache[stack[i].key],
                             FlatDeps(cache[stack[i].key])[1])} :
                HasPath(d) /\ ~d["system"]
                /\ Has(cache[MakeCacheKey(d)], "exclusionId")
                /\ cache[MakeCacheKey(d)]["exclusionId"]
                      = FullName(d, ChainPaths(i))

=============================================================================
